---------------------------- MODULE Spec2Model ----------------------------
(*************************************************************************)
(* MIDI-PiPy (src/MIDIPiPy/main.py): a MIDI input callback that looks up  *)
(* rules loaded from two YAML files and either runs an external command   *)
(* or sends MIDI messages on an output port.                              *)
(*                                                                        *)
(* The module models the rule records and their loading (Command,         *)
(* MidiTrans, load_cmdconfig, load_miditrans), the memoized lookup        *)
(* (lookup_command under functools.lru_cache), the event callback         *)
(* (MidiInputHandler.__call__), the command template formatting, and the *)
(* life of the input port in main().                                      *)
(* The file runs under Python 2 and Python 3 (it carries a "Python < 3.2" *)
(* import fallback); the interpreter is an input of the model.            *)
(*************************************************************************)
EXTENDS Integers, Sequences, FiniteSets, TLC

VARIABLES
    pyver,          \* major version of the interpreter running main.py
    lruAvail,       \* whether the import at main.py:34-41 found a real lru_cache
    pc,             \* position of main(): "start", "run", "crashed", "exited"; "looked", "decoded" for direct calls
    midiin,         \* the input port main() opened: "open" or "closed"
    cmdrecords,     \* parsed content of the CMDCONFIG file handed to the handler
    transrecords,   \* parsed content of the MIDITRANS file handed to the handler
    commands,       \* MidiInputHandler.commands
    translations,   \* MidiInputHandler.translations
    wallclock,      \* MidiInputHandler._wallclock
    cache,          \* entries held by lru_cache for lookup_command, most recent first
    hist,           \* the most recent lookups, one entry per distinct key, most recent first
    look,           \* what the last call of lookup_command did
    last            \* what the last run of __call__ did

vars == <<pyver, lruAvail, pc, midiin, cmdrecords, transrecords, commands,
          translations, wallclock, cache, hist, look, last>>

-----------------------------------------------------------------------------
(* Values *)

\* Python's None, where an integer or a rule is expected.
None == -1

\* rtmidi.midiconstants, imported at main.py:47-48.
NOTE_OFF == 128
NOTE_ON == 144
POLY_PRESSURE == 160
CONTROLLER_CHANGE == 176
PROGRAM_CHANGE == 192
CHANNEL_PRESSURE == 208
PITCH_BEND == 224

STATUS_MAP ==
    [ noteon |-> NOTE_ON,
      noteoff |-> NOTE_OFF,
      programchange |-> PROGRAM_CHANGE,
      controllerchange |-> CONTROLLER_CHANGE,
      pitchbend |-> PITCH_BEND,
      polypressure |-> POLY_PRESSURE,
      channelpressure |-> CHANNEL_PRESSURE ]

\* dict.get(key) with the default None.
StatusMapGet(name) ==
    IF name \in DOMAIN STATUS_MAP THEN STATUS_MAP[name] ELSE None

\* The `data` field of a record or of a rule object:
\*   "none"  absent (None)
\*   "int"   one integer v1
\*   "str"   the string "v1 v2" (has a split method)
\*   "yseq"  the YAML sequence [v1, v2] (a Python list as yaml.load returns it)
\*   "list"  the list [v1, v2] that Python 2's map() returns
\*   "map"   the lazy map object that Python 3's map() returns
NoData == [kind |-> "none", v1 |-> None, v2 |-> None]
IntData(v) == [kind |-> "int", v1 |-> v, v2 |-> None]
StrData(a, b) == [kind |-> "str", v1 |-> a, v2 |-> b]
SeqData(a, b) == [kind |-> "yseq", v1 |-> a, v2 |-> b]

\* A template is a sequence of parts: literal text, or a %(field)0<width>i
\* conversion (width 0: plain %(field)i).
Lit(s) == [lit |-> s, field |-> "", width |-> 0]
Conv(f, w) == [lit |-> "", field |-> f, width |-> w]

\* The value lookup returns when the loop ends without a return.
NoRule ==
    [name |-> "", status |-> "", stype |-> "str", channel |-> None,
     data |-> NoData, action |-> << >>]

-----------------------------------------------------------------------------
(* Rule objects *)

\* Command.__init__ / MidiTrans.__init__: the object built from a record, or
\* the TypeError raised for a data field that is neither None, an int nor
\* something with a split method.
RuleObject(rec, py) ==
    IF rec.data.kind \in {"none", "int"}
    THEN [exc |-> "none", obj |-> rec]
    ELSE IF rec.data.kind = "str"
    THEN [exc |-> "none",
          obj |-> [rec EXCEPT !.data.kind = IF py = 2 THEN "list" ELSE "map"]]
    ELSE [exc |-> "TypeError", obj |-> NoRule]

\* dict.setdefault(key, []).append(value)
SetDefaultAppend(d, key, value) ==
    IF key \in DOMAIN d
    THEN [d EXCEPT ![key] = Append(@, value)]
    ELSE d @@ (key :> <<value>>)

\* dict.get(key, [])
GetOrEmpty(d, key) == IF key \in DOMAIN d THEN d[key] ELSE << >>

\* The loop of load_cmdconfig / load_miditrans over the records of the file,
\* starting from the table built so far.  A TypeError from the constructor is
\* re-raised as IOError and ends the load.  cmd.status.strip() raises
\* AttributeError, which nothing catches, when the YAML value of status is an
\* integer (stype = "int").  The status name is looked up in STATUS_MAP; a
\* name that is not there leaves status = None, and the rule is appended to
\* the bucket of None whether int() accepts the name (nothing is assigned) or
\* not (the error is logged).  The names of the records below are already
\* stripped and in lower case.
RECURSIVE LoadRecords(_, _, _)
LoadRecords(recs, table, py) ==
    IF recs = << >>
    THEN [exc |-> "none", table |-> table]
    ELSE LET made == RuleObject(Head(recs), py)
         IN IF made.exc # "none"
            THEN [exc |-> "IOError", table |-> table]
            ELSE IF made.obj.stype = "int"
            THEN [exc |-> "AttributeError", table |-> table]
            ELSE LoadRecords(Tail(recs),
                     SetDefaultAppend(table, StatusMapGet(made.obj.status), made.obj),
                     py)

\* `if not exists(filename): raise IOError` comes before the file is read.
load_cmdconfig(exists, recs, py) ==
    IF ~exists THEN [exc |-> "IOError", table |-> << >>]
    ELSE LoadRecords(recs, << >>, py)

load_miditrans(exists, recs, py) ==
    IF ~exists THEN [exc |-> "IOError", table |-> << >>]
    ELSE LoadRecords(recs, << >>, py)

-----------------------------------------------------------------------------
(* lookup_command *)

\* Variant of CmdMatches with a slip: the single value is compared with data2.
CmdMatchesData2(cmd, channel, data1, data2) ==
    /\ ~(channel # None /\ cmd.channel # channel)
    /\ \/ (data1 = None /\ data2 = None) \/ cmd.data.kind = "none"
       \/ cmd.data.kind = "int" /\ cmd.data.v1 = data2
       \/ cmd.data.kind = "list" /\ cmd.data.v1 = data1 /\ cmd.data.v2 = data2

\* One iteration of the loop of lookup_command (main.py:198-207): TRUE when the
\* iteration returns cmd, FALSE when it falls through to the next rule.
\* isinstance(cmd.data, (list, tuple)) holds for Python 2's map() result only.
CmdMatches(cmd, channel, data1, data2) ==
    /\ ~(channel # None /\ cmd.channel # channel)
    /\ \/ (data1 = None /\ data2 = None) \/ cmd.data.kind = "none"
       \/ cmd.data.kind = "int" /\ cmd.data.v1 = data1
       \/ cmd.data.kind = "list" /\ cmd.data.v1 = data1 /\ cmd.data.v2 = data2

\* The for loop over one bucket: the first rule whose iteration returns, or
\* None when the loop runs out.
RECURSIVE ScanBucket(_, _, _, _)
ScanBucket(bucket, channel, data1, data2) ==
    IF bucket = << >> THEN NoRule
    ELSE IF CmdMatches(Head(bucket), channel, data1, data2) THEN Head(bucket)
    ELSE ScanBucket(Tail(bucket), channel, data1, data2)

\* The undecorated body of lookup_command.
lookup_command_body(table, status, channel, data1, data2) ==
    ScanBucket(GetOrEmpty(table, status), channel, data1, data2)

\* The same loop in lookup_translation, over the translations.
lookup_translation(table, status, channel, data1, data2) ==
    ScanBucket(GetOrEmpty(table, status), channel, data1, data2)

\* Number of entries lru_cache keeps.  The decorator is used with its default
\* maxsize of 128; the model keeps the policy and scales the size down.
MaxSize == 2

\* Position of key in a sequence of [key, val] entries, 0 when absent.
RECURSIVE PosFrom(_, _, _)
PosFrom(entries, key, i) ==
    IF i > Len(entries) THEN 0
    ELSE IF entries[i].key = key THEN i
    ELSE PosFrom(entries, key, i + 1)

PosOf(entries, key) == PosFrom(entries, key, 1)

Without(entries, i) ==
    SubSeq(entries, 1, i - 1) \o SubSeq(entries, i + 1, Len(entries))

Truncate(entries, n) ==
    IF Len(entries) > n THEN SubSeq(entries, 1, n) ELSE entries

\* Variant of LruCall with a slip: a hit does not make the entry the most
\* recent one, so the cache drops entries in order of insertion.
LruCallFifo(entries, key, val, avail) ==
    LET i == PosOf(entries, key)
    IN IF ~avail
       THEN [val |-> val, scanned |-> TRUE, cache |-> entries]
       ELSE IF i > 0
       THEN [val |-> entries[i].val, scanned |-> FALSE, cache |-> entries]
       ELSE [val |-> val, scanned |-> TRUE,
             cache |-> Truncate(<<[key |-> key, val |-> val]>> \o entries, MaxSize)]

\* functools.lru_cache around a function whose result would be val: a hit
\* returns the stored value and makes the entry the most recent; a miss runs
\* the function, stores the result (None included) as the most recent entry
\* and, when the cache is full, drops the least recently used one.
\* Without a real lru_cache (the lambda fallback) every call runs the function.
LruCall(entries, key, val, avail) ==
    LET i == PosOf(entries, key)
    IN IF ~avail
       THEN [val |-> val, scanned |-> TRUE, cache |-> entries]
       ELSE IF i > 0
       THEN [val |-> entries[i].val, scanned |-> FALSE,
             cache |-> <<entries[i]>> \o Without(entries, i)]
       ELSE [val |-> val, scanned |-> TRUE,
             cache |-> Truncate(<<[key |-> key, val |-> val]>> \o entries, MaxSize)]

\* Variant of lookup_command with a slip: the channel is left out of the key
\* under which the result is memoized.
lookup_command_channelless_key(entries, table, status, channel, data1, data2, avail) ==
    LruCall(entries, <<status, None, data1, data2>>,
            lookup_command_body(table, status, channel, data1, data2), avail)

\* self.lookup_command(status, channel, data1, data2) as the callers see it.
lookup_command(entries, table, status, channel, data1, data2, avail) ==
    LruCall(entries, <<status, channel, data1, data2>>,
            lookup_command_body(table, status, channel, data1, data2), avail)

\* Record of one lookup for the observers: the key, the value returned,
\* whether the loop ran, and where the key stood among the recent lookups
\* before this one (0: not among the last MaxSize + 1 distinct keys) with the
\* value returned then.
Looked(h, key, r) ==
    LET i == PosOf(h, key)
    IN [key |-> key, val |-> r.val, scanned |-> r.scanned, prevPos |-> i,
        prevVal |-> IF i > 0 THEN h[i].val ELSE NoRule]

NoLook ==
    [key |-> << >>, val |-> NoRule, scanned |-> FALSE, prevPos |-> 0,
     prevVal |-> NoRule]

\* The recent-lookup history after a lookup of key returning val.
Remember(h, key, val) ==
    LET i == PosOf(h, key)
        rest == IF i > 0 THEN Without(h, i) ELSE h
    IN Truncate(<<[key |-> key, val |-> val]>> \o rest, MaxSize + 1)

-----------------------------------------------------------------------------
(* Command line formatting *)

Digits == <<"0", "1", "2", "3", "4", "5", "6", "7", "8", "9">>

\* str of a non-negative int.
RECURSIVE Decimal(_)
Decimal(n) ==
    IF n < 10 THEN Digits[n + 1]
    ELSE Decimal(n \div 10) \o Digits[(n % 10) + 1]

\* Left padding with zeros up to the width of a %0<w>i conversion.
RECURSIVE ZeroPad(_, _)
ZeroPad(s, w) == IF Len(s) >= w THEN s ELSE ZeroPad("0" \o s, w)

\* cmd.command % dict(channel=..., data1=..., data2=..., status=...): the text
\* with every conversion replaced, or TypeError when a converted field is None.
RECURSIVE FormatParts(_, _, _)
FormatParts(parts, fields, acc) ==
    IF parts = << >> THEN [exc |-> "none", text |-> acc]
    ELSE LET p == Head(parts)
         IN IF p.field = ""
            THEN FormatParts(Tail(parts), fields, acc \o p.lit)
            ELSE IF fields[p.field] = None
            THEN [exc |-> "TypeError", text |-> ""]
            ELSE FormatParts(Tail(parts), fields,
                     acc \o ZeroPad(Decimal(fields[p.field]), p.width))

\* int(text) for the decimal text of a byte; None stands for ValueError.
ParseInt(text) ==
    IF \E n \in 0..255 : Decimal(n) = text
    THEN CHOOSE n \in 0..255 : Decimal(n) = text
    ELSE None

FormatCommand(template, channel, status, data1, data2) ==
    FormatParts(template,
        [channel |-> channel, status |-> status, data1 |-> data1, data2 |-> data2],
        "")

-----------------------------------------------------------------------------
(* Inputs: rule files, MIDI messages, time deltas *)

\* A record of a rule file.  status holds the text of the YAML value, stype
\* tells whether YAML read it as a string or as an integer.
Rec(name, status, channel, data, action) ==
    [name |-> name, status |-> status, stype |-> "str", channel |-> channel,
     data |-> data, action |-> action]

\* The record with `status: <number>` written without quotes.
WithIntStatus(rec) == [rec EXCEPT !.stype = "int"]

\* Command records (the two of the module docstring first).
backing ==
    Rec("backing", "programchange", 16, NoData, <<Lit("echo "), Conv("data1", 3)>>)
sheets ==
    Rec("sheets", "controllerchange", 16, IntData(14),
        <<Lit("notify "), Conv("data2", 3)>>)
anycc ==
    Rec("anycc", "controllerchange", None, NoData, <<Lit("cc "), Conv("channel", 0)>>)
allcc ==
    Rec("allcc", "controllerchange", 16, NoData, <<Lit("all "), Conv("status", 0)>>)
pairstr ==
    Rec("pairstr", "controllerchange", 16, StrData(14, 3), <<Lit("pair")>>)
pairseq ==
    Rec("pairseq", "controllerchange", 16, SeqData(14, 3), <<Lit("pair")>>)
five ==
    Rec("five", "controllerchange", 5, IntData(14), <<Lit("five")>>)
progsheet ==
    Rec("progsheet", "programchange", 16, NoData,
        <<Lit("show "), Conv("data2", 3)>>)

\* Records with a numeric status, quoted ('176') and unquoted (176), and one
\* with a status that is neither a name of STATUS_MAP nor a number.
numcc ==
    Rec("numcc", "176", 16, IntData(14), <<Lit("num")>>)
intcc ==
    WithIntStatus(Rec("intcc", "176", 16, IntData(14), <<Lit("int")>>))
bogus ==
    Rec("bogus", "bogus", 16, NoData, <<Lit("never")>>)

\* Translation records; the translation is the message to send.
transcc ==
    Rec("transcc", "controllerchange", 5, IntData(14), <<PROGRAM_CHANGE + 4, 14>>)
transpc ==
    Rec("transpc", "programchange", 5, NoData, <<CONTROLLER_CHANGE + 4, 0, 0>>)

\* The pairs of files (CMDCONFIG, MIDITRANS) the program is started with.
Files(cmd, trans) ==
    [cmd |-> cmd, trans |-> trans, cmdExists |-> TRUE, transExists |-> TRUE]

\* A start of the program with a CMDCONFIG path that names no file.
MissingCmdConfig(trans) == [Files(<< >>, trans) EXCEPT !.cmdExists = FALSE]

ConfigFiles ==
    { Files(<<backing, sheets>>, <<transcc>>),
      Files(<<sheets, allcc>>, <<transpc>>),
      Files(<<allcc, sheets>>, <<transcc, transpc>>),
      Files(<<anycc, allcc>>, <<transpc>>),
      Files(<<pairstr, backing>>, <<transcc>>),
      Files(<<pairseq, backing>>, <<transpc>>),
      Files(<<five, sheets>>, <<transpc, transcc>>),
      Files(<<progsheet, sheets>>, <<transcc>>),
      Files(<<numcc, sheets>>, <<transcc>>),
      Files(<<intcc, sheets>>, <<transcc>>),
      Files(<<sheets, bogus, allcc>>, <<bogus, transcc>>),
      MissingCmdConfig(<<transcc>>) }

\* Raw messages the input port delivers: a control change and a program
\* change on channel 16, a control change and a program change on channel 5,
\* and a timing clock (a system message).
Events ==
    { <<191, 14, 3>>, <<207, 7>>, <<180, 14, 3>>, <<196, 7>>, <<248>> }

\* The delta times of the events, and the largest clock value explored.
Deltas == {0, 1}
MaxClock == 1

\* Arguments of direct calls of lookup_command.
LookupStatuses == {CONTROLLER_CHANGE, PROGRAM_CHANGE}
LookupChannels == {None, 5, 16}
LookupData1 == {None, 7, 14, 15}
LookupData2 == {None, 3, 4}

-----------------------------------------------------------------------------
(* The event callback *)

\* event[0] & 0xF and event[0] & 0xF0 on a byte.
LowNibble(b) == b % 16
HighNibble(b) == b - (b % 16)

\* Variant of Decode with a slip: the channel is not shifted to 1..16.
DecodeZeroBased(event) ==
    [channel |-> IF event[1] < 240 THEN LowNibble(event[1]) ELSE None,
     status |-> IF event[1] < 240 THEN HighNibble(event[1]) ELSE event[1],
     data1 |-> IF Len(event) >= 2 THEN event[2] ELSE None,
     data2 |-> IF Len(event) >= 3 THEN event[3] ELSE None]

\* main.py:120-133
Decode(event) ==
    [channel |-> IF event[1] < 240 THEN LowNibble(event[1]) + 1 ELSE None,
     status |-> IF event[1] < 240 THEN HighNibble(event[1]) ELSE event[1],
     data1 |-> IF Len(event) >= 2 THEN event[2] ELSE None,
     data2 |-> IF Len(event) >= 3 THEN event[3] ELSE None]

\* Variant of TranslationBranch with a slip: `channel <= 16`.
TranslationBranchLe16(channel, py) ==
    IF channel = None THEN (IF py = 2 THEN "taken" ELSE "TypeError")
    ELSE IF channel <= 16 THEN "taken" ELSE "skipped"

\* `if channel < 16:` (main.py:139).  Python 2 orders None below every int;
\* Python 3 raises TypeError for None < 16.
TranslationBranch(channel, py) ==
    IF channel = None THEN (IF py = 2 THEN "taken" ELSE "TypeError")
    ELSE IF channel < 16 THEN "taken" ELSE "skipped"

\* `if channel == 16:` (main.py:178)
CommandBranch(channel) == channel = 16

\* The messages of main.py:158-161.
ModeMsg == <<240, 66, 48, 0, 1, 21, 78, 0, 247>>
Bank1Msg == <<176, 0, 0>>
Bank2Msg == <<176, 32, 3>>
ProgMsg == <<192, 0>>

\* main.py:148-175: what happens on the output side once the branch is taken.
\* The result of the lookup (trans) is not read.  With output ports the port
\* is opened, the four messages are sent and close_port() is called; an
\* exception of send_message (sendOk = FALSE, at the first message) leaves the
\* block before close_port() and before `del midiout`, so the port is still
\* held when the exception leaves __call__.  Without output ports a virtual
\* port is opened, close_port() is not called, and `del midiout` drops the
\* only reference to the MidiOut object, which releases the port.
EmitOutput(trans, ports, sendOk) ==
    IF ports /\ sendOk
    THEN [opened |-> "port", sent |-> <<ModeMsg, Bank1Msg, Bank2Msg, ProgMsg>>,
          closed |-> TRUE, held |-> FALSE, exc |-> "none"]
    ELSE IF ports
    THEN [opened |-> "port", sent |-> << >>, closed |-> FALSE, held |-> TRUE,
          exc |-> "SendError"]
    ELSE [opened |-> "virtual", sent |-> << >>, closed |-> FALSE,
          held |-> FALSE, exc |-> "none"]

NoOutput ==
    [opened |-> "none", sent |-> << >>, closed |-> FALSE, held |-> FALSE,
     exc |-> "none"]

\* Variant of do_command with a slip: no try/except around the launch.
do_command_uncaught(cmdline, popenOk) ==
    [called |-> TRUE, cmdline |-> cmdline, spawned |-> popenOk,
     exc |-> IF popenOk THEN "none" ELSE "OSError"]

\* do_command (main.py:222-228): a failure of shlex.split or Popen
\* (popenOk = FALSE) is caught by the bare except and logged.
do_command(cmdline, popenOk) ==
    [called |-> TRUE, cmdline |-> cmdline, spawned |-> popenOk, exc |-> "none"]

NoCommand ==
    [called |-> FALSE, cmdline |-> "", spawned |-> FALSE, exc |-> "none"]

\* State of one run of __call__ before any branch ran.
Begin(c, h, event) ==
    [cache |-> c, hist |-> h, look |-> NoLook, event |-> event,
     ev |-> Decode(event), consulted |-> "none", found |-> NoRule,
     out |-> NoOutput, cmd |-> NoCommand, exc |-> "none"]

\* self.lookup_command(...) inside __call__.
WithLookup(st, table, avail) ==
    LET e == st.ev
        key == <<e.status, e.channel, e.data1, e.data2>>
        r == lookup_command(st.cache, table, e.status, e.channel, e.data1,
                            e.data2, avail)
    IN [st EXCEPT !.cache = r.cache,
                  !.hist = Remember(st.hist, key, r.val),
                  !.look = Looked(st.hist, key, r),
                  !.consulted = "commands",
                  !.found = r.val]

\* main.py:139-175
TranslationPart(st, table, avail, py, ports, sendOk) ==
    LET b == TranslationBranch(st.ev.channel, py)
    IN IF b = "TypeError" THEN [st EXCEPT !.exc = "TypeError"]
       ELSE IF b = "skipped" THEN st
       ELSE LET st1 == WithLookup(st, table, avail)
                o == EmitOutput(st1.found, ports, sendOk)
            IN [st1 EXCEPT !.out = o, !.exc = o.exc]

\* main.py:178-193
CommandPart(st, table, avail, popenOk) ==
    IF st.exc # "none" \/ ~CommandBranch(st.ev.channel) THEN st
    ELSE LET st1 == WithLookup(st, table, avail)
             e == st1.ev
         IN IF st1.found = NoRule THEN st1
            ELSE LET f == FormatCommand(st1.found.action, e.channel, e.status,
                                        e.data1, e.data2)
                 IN IF f.exc # "none" THEN [st1 EXCEPT !.exc = f.exc]
                    ELSE LET d == do_command(f.text, popenOk)
                         IN [st1 EXCEPT !.cmd = d, !.exc = d.exc]

\* The whole of __call__ after the clock update.
HandleEvent(c, h, table, avail, py, event, ports, sendOk, popenOk) ==
    CommandPart(TranslationPart(Begin(c, h, event), table, avail, py, ports,
                                sendOk),
                table, avail, popenOk)

\* The answers of the outside world a run of __call__ can get: whether
\* get_ports() lists output ports, read in the first branch only, whether
\* send_message succeeds, read only with an open port, and whether the
\* command can be started, read in the second branch only.
AskedForPorts(event, py) ==
    IF TranslationBranch(Decode(event).channel, py) = "taken"
    THEN BOOLEAN ELSE {FALSE}

AskedToSend(ports) == IF ports THEN BOOLEAN ELSE {TRUE}

AskedToSpawn(event) ==
    IF CommandBranch(Decode(event).channel) THEN BOOLEAN ELSE {FALSE}

\* Variant of AdvanceClock with a slip: `=` for `+=`.
AdvanceClockAssign(clock, deltatime) == deltatime

\* self._wallclock += deltatime (main.py:118)
AdvanceClock(clock, deltatime) == clock + deltatime

NoCall ==
    [event |-> << >>, deltatime |-> 0,
     ev |-> [channel |-> None, status |-> None,
             data1 |-> None, data2 |-> None],
     consulted |-> "none", found |-> NoRule, out |-> NoOutput,
     cmd |-> NoCommand, exc |-> "none"]

-----------------------------------------------------------------------------
(* Actions *)

Init ==
    /\ pyver \in {2, 3}
    /\ lruAvail \in BOOLEAN
    /\ pyver = 3 => lruAvail
    /\ pc = "start"
    /\ midiin = "open"
    /\ cmdrecords = << >>
    /\ transrecords = << >>
    /\ commands = << >>
    /\ translations = << >>
    /\ wallclock = 0
    /\ cache = << >>
    /\ hist = << >>
    /\ look = NoLook
    /\ last = NoCall

\* MidiInputHandler(port_name, args.cmdconfig, args.miditrans) in main():
\* __init__ loads the command file, then the translation file; an exception
\* of either load leaves main().
Construct ==
    /\ pc = "start"
    /\ \E files \in ConfigFiles :
          LET lc == load_cmdconfig(files.cmdExists, files.cmd, pyver)
              lt == load_miditrans(files.transExists, files.trans, pyver)
          IN /\ cmdrecords' = files.cmd
             /\ transrecords' = files.trans
             /\ commands' = lc.table
             /\ translations' = IF lc.exc = "none" THEN lt.table ELSE << >>
             /\ pc' = IF lc.exc = "none" /\ lt.exc = "none" THEN "run" ELSE "crashed"
    /\ wallclock' = 0
    /\ UNCHANGED <<pyver, lruAvail, midiin, cache, hist, look, last>>

\* One delivery of (event, deltatime) to MidiInputHandler.__call__.
Call ==
    /\ pc = "run"
    /\ \E event \in Events, deltatime \in Deltas :
       \E ports \in AskedForPorts(event, pyver), popenOk \in AskedToSpawn(event) :
       \E sendOk \in AskedToSend(ports) :
          /\ wallclock + deltatime <= MaxClock
          /\ wallclock' = AdvanceClock(wallclock, deltatime)
          /\ \E st \in {HandleEvent(cache, hist, commands, lruAvail, pyver,
                                   event, ports, sendOk, popenOk)} :
                /\ cache' = st.cache
                /\ hist' = st.hist
                /\ look' = st.look
                /\ last' = [event |-> st.event, deltatime |-> deltatime,
                            ev |-> st.ev,
                            consulted |-> st.consulted, found |-> st.found,
                            out |-> st.out, cmd |-> st.cmd, exc |-> st.exc]
    /\ UNCHANGED <<pyver, lruAvail, pc, midiin, cmdrecords, transrecords,
                   commands, translations>>

\* KeyboardInterrupt in the run loop of main() (main.py:337-345): the except
\* clause prints, the finally clause closes the input port and deletes
\* midiin, which held the only reference to the handler: the handler and all
\* it held are gone.
Interrupt ==
    /\ pc = "run"
    /\ pc' = "exited"
    /\ midiin' = "closed"
    /\ commands' = << >>
    /\ translations' = << >>
    /\ wallclock' = 0
    /\ cache' = << >>
    /\ hist' = << >>
    /\ look' = NoLook
    /\ last' = NoCall
    /\ UNCHANGED <<pyver, lruAvail, cmdrecords, transrecords>>

Next == Construct \/ Call \/ Interrupt

Spec == Init /\ [][Next]_vars

\* A direct call handler.lookup_command(status, channel, data1, data2) on a
\* freshly constructed handler.
DirectLookup ==
    /\ pc = "run"
    /\ \E status \in LookupStatuses, channel \in LookupChannels,
          data1 \in LookupData1, data2 \in LookupData2 :
          \E r \in {lookup_command(cache, commands, status, channel, data1,
                                   data2, lruAvail)} :
             /\ cache' = r.cache
             /\ hist' = Remember(hist, <<status, channel, data1, data2>>, r.val)
             /\ look' = Looked(hist, <<status, channel, data1, data2>>, r)
    /\ pc' = "looked"
    /\ UNCHANGED <<pyver, lruAvail, midiin, cmdrecords, transrecords, commands,
                   translations, wallclock, last>>

LookupNext == Construct \/ DirectLookup

LookupSpec == Init /\ [][LookupNext]_vars

\* Messages of one, two and three bytes with every first byte.
DataBytes == {0, 127}
Messages ==
    {<<b>> : b \in 0..255}
        \cup {<<b, d1>> : b \in 0..255, d1 \in DataBytes}
        \cup {<<b, d1, d2>> : b \in 0..255, d1 \in DataBytes, d2 \in DataBytes}

\* The decoding at the head of __call__ (main.py:120-133) on one message.
DecodeMessage ==
    /\ pc = "start"
    /\ \E event \in Messages :
          last' = [NoCall EXCEPT !.event = event, !.ev = Decode(event)]
    /\ pc' = "decoded"
    /\ UNCHANGED <<pyver, lruAvail, midiin, cmdrecords, transrecords, commands,
                   translations, wallclock, cache, hist, look>>

DecodeNext == DecodeMessage

DecodeSpec == Init /\ [][DecodeNext]_vars

-----------------------------------------------------------------------------
(* The vocabulary of the properties: selectors as the design document      *)
(* defines them, and the observable effects of one run of __call__.        *)

\* A channel constraint is satisfied by its own channel; a rule without one
\* is satisfied by every event.
ChannelSelects(rule, channel) ==
    rule.channel = None \/ rule.channel = channel

\* Unconstrained data, an event without data bytes, a single value equal to
\* data1, or a pair equal to (data1, data2).
DataSelects(rule, data1, data2) ==
    \/ rule.data.kind = "none"
    \/ data1 = None /\ data2 = None
    \/ rule.data.kind = "int" /\ rule.data.v1 = data1
    \/ /\ rule.data.kind \in {"str", "yseq", "list", "map"}
       /\ rule.data.v1 = data1 /\ rule.data.v2 = data2

SelectorMatches(rule, channel, data1, data2) ==
    ChannelSelects(rule, channel) /\ DataSelects(rule, data1, data2)

\* The earliest rule of a bucket whose selector matches, NoRule without one.
RECURSIVE EarliestMatch(_, _, _, _)
EarliestMatch(bucket, channel, data1, data2) ==
    IF bucket = << >> THEN NoRule
    ELSE IF SelectorMatches(Head(bucket), channel, data1, data2) THEN Head(bucket)
    ELSE EarliestMatch(Tail(bucket), channel, data1, data2)

Handled == last.event # << >>
Emitted == last.out.opened # "none" \/ last.out.sent # << >>
Launched == last.cmd.called

\* A lookup took place; the bucket of its key, and the fields of the key.
LookedUp == look.key # << >>
LookBucket == GetOrEmpty(commands, look.key[1])
LookChannel == look.key[2]
LookData1 == look.key[3]
LookData2 == look.key[4]

\* Position of the rule called name in a bucket, 0 when it is not there.
RECURSIVE NamePos(_, _, _)
NamePos(bucket, name, i) ==
    IF i > Len(bucket) THEN 0
    ELSE IF bucket[i].name = name THEN i
    ELSE NamePos(bucket, name, i + 1)

-----------------------------------------------------------------------------
(* Properties *)

\* C1: an event on a channel in 1..15 consults the Translation table, and an
\* output port is opened or a message sent if and only if that table holds
\* a rule matching the event.
C1_TranslationDrivesOutput ==
    (Handled /\ last.ev.channel \in 1..15) =>
        /\ last.consulted = "translations"
        /\ Emitted <=>
             EarliestMatch(GetOrEmpty(translations, last.ev.status),
                 last.ev.channel, last.ev.data1, last.ev.data2) # NoRule

\* C2: an event on channel 16 launches a command if and only if the Command
\* table holds a rule matching the event, and the command line launched is
\* the template of the matched rule with the event's fields filled in.
C2_CommandLaunch ==
    (Handled /\ last.ev.channel = 16) =>
        LET rule == EarliestMatch(GetOrEmpty(commands, last.ev.status),
                        last.ev.channel, last.ev.data1, last.ev.data2)
        IN /\ Launched <=> rule # NoRule
           /\ Launched =>
                last.cmd.cmdline =
                    FormatCommand(rule.action, last.ev.channel, last.ev.status,
                                  last.ev.data1, last.ev.data2).text

\* C3: routing is exclusive: an event on a channel in 1..15 launches no
\* command, and an event on channel 16 opens no output port and sends nothing.
C3_RoutingExclusive ==
    /\ (Handled /\ last.ev.channel \in 1..15) => ~Launched
    /\ (Handled /\ last.ev.channel = 16) => ~Emitted

\* C3 witness: a control change on channel 5 for which lookup_command even
\* returned a Command rule went to the output port and launched nothing.
C3_Witness ==
    /\ Handled /\ last.ev.channel = 5
    /\ last.found.name = "five"
    /\ last.out.sent # << >>
    /\ ~Launched

\* C4: a system message (no channel) launches nothing, opens no port, sends
\* nothing, and the callback returns normally.
C4_SystemMessageInert ==
    (Handled /\ last.ev.channel = None) =>
        ~Launched /\ ~Emitted /\ last.exc = "none"

\* C5: lookup returns the earliest rule of the status bucket whose selector
\* matches the event, and None only when no rule of the bucket matches.
C5_FirstMatchWins ==
    LookedUp =>
        look.val = EarliestMatch(LookBucket, LookChannel, LookData1, LookData2)

\* C6: with a rule of unconstrained data in the bucket whose channel
\* constraint the event satisfies (no constraint: any channel), lookup does
\* not return None.
C6_UnconstrainedDataMatches ==
    (/\ LookedUp
     /\ \E i \in DOMAIN LookBucket :
           /\ LookBucket[i].data.kind = "none"
           /\ ChannelSelects(LookBucket[i], LookChannel))
    => look.val # NoRule

C8_SingleValueSelector ==
    (LookedUp /\ LookData1 # None) =>
        /\ look.val.data.kind = "int" => look.val.data.v1 = LookData1
        /\ \A i \in DOMAIN LookBucket :
              (/\ LookBucket[i].data.kind = "int"
               /\ LookBucket[i].channel = LookChannel
               /\ LookBucket[i].data.v1 = LookData1)
              => NamePos(LookBucket, look.val.name, 1) \in 1..i

\* C8 witness: control change 14 with data2 = 4 on channel 16 selected the
\* rule declared with data: 14.
C8_Witness ==
    /\ look.key = <<CONTROLLER_CHANGE, 16, 14, 4>>
    /\ look.val.name = "sheets"

\* C9: a record with a two-value data selector is accepted by the load, and
\* an event with its status, its channel and (data1, data2) equal to the pair
\* selects it when no earlier record of the file matches.
C9_PairSelector ==
    \A i \in DOMAIN cmdrecords :
        cmdrecords[i].data.kind \in {"str", "yseq"} =>
            /\ pc # "crashed"
            /\ (/\ LookedUp
                /\ i = 1
                /\ look.key = <<StatusMapGet(cmdrecords[i].status),
                                cmdrecords[i].channel, cmdrecords[i].data.v1,
                                cmdrecords[i].data.v2>>)
               => look.val.name = cmdrecords[i].name

\* C10: a lookup of a tuple that was looked up before returns the same
\* result as before and does not run the scan again.
C10_ScanOnlyOnce ==
    look.prevPos > 0 => look.val = look.prevVal /\ ~look.scanned

\* C10 as amended: a lookup of a tuple that was looked up before returns the
\* same result as before; it does not run the scan again when a real
\* lru_cache is in use and fewer than maxsize distinct other tuples were
\* looked up in between.
C10_ScanOnlyOnceWhileCached ==
    look.prevPos > 0 =>
        /\ look.val = look.prevVal
        /\ (lruAvail /\ look.prevPos <= MaxSize) => ~look.scanned

\* C10 witness: the tuple looked up stood last among the MaxSize most recent
\* ones, and its rule came from the cache.
C10_Witness ==
    /\ lruAvail
    /\ look.prevPos = MaxSize
    /\ ~look.scanned
    /\ look.val # NoRule


\* C11: a failure while formatting the matched rule's command template with
\* the fields of the event is caught: whenever a handled event on channel 16
\* found a rule whose template cannot be formatted with the event's fields,
\* no exception leaves the callback.
C11_FormatFailureContained ==
    (/\ Handled
     /\ last.ev.channel = 16
     /\ last.found # NoRule
     /\ FormatCommand(last.found.action, last.ev.channel, last.ev.status,
                      last.ev.data1, last.ev.data2).exc # "none")
        => last.exc = "none"

\* The state the handler is left in by the same event when the launch succeeds.
AfterSuccessfulLaunch(event) ==
    HandleEvent(cache, hist, commands, lruAvail, pyver, event, TRUE, TRUE, TRUE)

\* C12: a failure while tokenizing or launching the command stays inside
\* do_command.  A delivery whose launch fails returns without an exception,
\* leaves the handler running with the cache, and the rule found, that the
\* same event leaves after a successful launch of the same command line; and
\* the delivery that follows a failed launch is decoded and looked up in the
\* rule table as any other.
C12_LaunchFailureContained ==
    [][ /\ (pc = "run" /\ last'.cmd.called /\ ~last'.cmd.spawned) =>
              LET ok == AfterSuccessfulLaunch(last'.event)
              IN /\ last'.exc = "none"
                 /\ pc' = "run"
                 /\ ok.cmd.spawned
                 /\ ok.cmd.cmdline = last'.cmd.cmdline
                 /\ cache' = ok.cache
                 /\ hist' = ok.hist
                 /\ look' = ok.look
                 /\ last'.found = ok.found
        /\ (pc = "run" /\ pc' = "run" /\ last.cmd.called /\ ~last.cmd.spawned) =>
              /\ last'.event \in Events
              /\ last'.ev = Decode(last'.event)
              /\ last'.ev.channel = 16 =>
                    last'.found =
                        lookup_command_body(commands, last'.ev.status,
                            last'.ev.channel, last'.ev.data1, last'.ev.data2)
      ]_vars

\* A launch failed, the callback returned normally and the handler takes the
\* next delivery.
C12_Witness ==
    /\ last.cmd.called
    /\ ~last.cmd.spawned
    /\ last.exc = "none"
    /\ pc = "run"
    /\ ENABLED Call

\* C13: every output port opened while handling an event is released before
\* the handling of that event ends, on every exit path: between two events no
\* output port is still held open.
C13_OutputPortReleased ==
    Handled => ~last.out.held

\* The translation rule the handler's own lookup_translation finds for the
\* event of a delivery.
TranslationOf(call) ==
    lookup_translation(translations, call.ev.status, call.ev.channel,
                       call.ev.data1, call.ev.data2)

\* C14: the messages emitted on the Translation path are determined by the
\* template of the matched Translation rule: two consecutive deliveries that
\* both send messages and whose events match translation rules with different
\* templates send different byte sequences.
C14_OutputFollowsTemplate ==
    [][ (/\ pc = "run"
         /\ last.out.sent # << >>
         /\ last'.out.sent # << >>
         /\ TranslationOf(last) # NoRule
         /\ TranslationOf(last') # NoRule
         /\ TranslationOf(last).action # TranslationOf(last').action)
            => last.out.sent # last'.out.sent ]_vars

\* A record whose status is a numeric code, and the code; a record whose
\* status can be resolved, by name or as a number.
IsNumericStatus(rec) == rec.stype = "int" \/ ParseInt(rec.status) # None
NumericStatus(rec) == ParseInt(rec.status)
Resolvable(rec) == StatusMapGet(rec.status) # None \/ IsNumericStatus(rec)

\* Every record of the file has a data field the rule constructor accepts.
AllLoadable(recs) ==
    \A i \in DOMAIN recs : RuleObject(recs[i], pyver).exc = "none"

\* Every record with a numeric status sits in the bucket of that number.
NumericInBucket(recs, table) ==
    \A i \in DOMAIN recs :
        IsNumericStatus(recs[i]) =>
            NamePos(GetOrEmpty(table, NumericStatus(recs[i])), recs[i].name, 1) > 0

\* C15: a record whose status is a numeric code is loaded into the bucket of
\* that number: once the handler has been constructed from files whose data
\* fields are all acceptable, the load has succeeded, every record with a
\* numeric status is in the bucket of its number in its table, and an event on
\* channel 16 with that status which the record's selector matches finds a
\* rule.
C15_NumericStatusLoaded ==
    (pc # "start" /\ AllLoadable(cmdrecords) /\ AllLoadable(transrecords)) =>
        /\ (\E i \in DOMAIN cmdrecords : IsNumericStatus(cmdrecords[i])) =>
                pc = "run"
        /\ NumericInBucket(cmdrecords, commands)
        /\ NumericInBucket(transrecords, translations)
        /\ (/\ Handled
            /\ last.ev.channel = 16
            /\ \E i \in DOMAIN cmdrecords :
                  /\ IsNumericStatus(cmdrecords[i])
                  /\ NumericStatus(cmdrecords[i]) = last.ev.status
                  /\ SelectorMatches(cmdrecords[i], last.ev.channel,
                                     last.ev.data1, last.ev.data2))
              => last.found # NoRule

\* No bucket of the table holds a rule whose status cannot be resolved.
OnlyResolvableStored(table) ==
    \A k \in DOMAIN table : \A i \in DOMAIN table[k] : Resolvable(table[k][i])

\* The records with a status name of STATUS_MAP are in the bucket of that
\* status, in the order of the file.
NamedInOrder(recs, table) ==
    \A i \in DOMAIN recs, j \in DOMAIN recs :
        (/\ i <= j
         /\ StatusMapGet(recs[i].status) # None
         /\ StatusMapGet(recs[j].status) = StatusMapGet(recs[i].status)) =>
            LET bucket == GetOrEmpty(table, StatusMapGet(recs[i].status))
            IN /\ 0 < NamePos(bucket, recs[i].name, 1)
               /\ NamePos(bucket, recs[i].name, 1) <= NamePos(bucket, recs[j].name, 1)

\* C16: a record whose status resolves neither as a name nor as a number is
\* dropped: after a load that succeeded, no bucket of either table holds such
\* a record, and the records with a known status name are in their buckets in
\* the order of the file.
C16_UnresolvedStatusDropped ==
    pc = "run" =>
        /\ OnlyResolvableStored(commands)
        /\ OnlyResolvableStored(translations)
        /\ NamedInOrder(cmdrecords, commands)
        /\ NamedInOrder(transrecords, translations)

\* C17: decoding of a message with first byte b.  If b < 0xF0 the channel
\* lies in 1..16, the status is a multiple of 16 and status + (channel - 1)
\* is b, which makes them (b & 0x0F) + 1 and b & 0xF0; if b >= 0xF0 there is
\* no channel and the status is b.  data1 is the second byte exactly when the
\* message has at least two bytes, data2 the third exactly when it has three.
C17_DecodeBytes ==
    pc = "decoded" =>
        LET b == last.event[1]
            e == last.ev
        IN /\ b < 240 =>
                /\ e.channel \in 1..16
                /\ e.status \in {16 * k : k \in 0..14}
                /\ e.status + (e.channel - 1) = b
           /\ b >= 240 => (e.channel = None /\ e.status = b)
           /\ e.data1 = (IF Len(last.event) >= 2 THEN last.event[2] ELSE None)
           /\ e.data2 = (IF Len(last.event) >= 3 THEN last.event[3] ELSE None)
           /\ (e.data1 # None) <=> Len(last.event) >= 2
           /\ (e.data2 # None) <=> Len(last.event) >= 3

\* The two-byte message with first byte 0xBF is decoded as channel 16.
C17_Witness ==
    /\ pc = "decoded"
    /\ last.event = <<191, 127>>
    /\ last.ev.channel = 16
    /\ last.ev.status = CONTROLLER_CHANGE
    /\ last.ev.data2 = None

\* The rule lookup_command finds for the event of a delivery in the table of
\* the handler, without reading anything else.
ScanFor(call) ==
    lookup_command_body(commands, call.ev.status, call.ev.channel,
                        call.ev.data1, call.ev.data2)

\* C18: every delivery advances the accumulated time by the delta of that
\* delivery, whatever the channel of the event and whether or not a rule
\* matches; the accumulated time never decreases; and the rule found and the
\* command line launched are those given by the rule table and the fields of
\* the event alone.
C18_ClockAdvances ==
    [][ (pc = "run" /\ pc' = "run") =>
           /\ wallclock' = wallclock + last'.deltatime
           /\ wallclock' >= wallclock
           /\ last'.consulted # "none" => last'.found = ScanFor(last')
           /\ last'.consulted = "none" => last'.found = NoRule
           /\ last'.cmd.called =>
                 last'.cmd.cmdline =
                     FormatCommand(ScanFor(last').action, last'.ev.channel,
                         last'.ev.status, last'.ev.data1, last'.ev.data2).text
      ]_vars

\* A timing clock message, which has no channel and matches no rule, arrived
\* with delta 1 after a delivery with delta 0, and the time is 1.
C18_Witness ==
    /\ Handled
    /\ last.ev.channel = None
    /\ last.found = NoRule
    /\ last.deltatime = 1
    /\ wallclock = 1
    /\ hist # << >>

\* The tuples (status, channel, data1, data2) of the events.
EventKeys ==
    { <<Decode(e).status, Decode(e).channel, Decode(e).data1, Decode(e).data2>> :
        e \in Events }

\* The result of an uncached scan of the handler's table for a tuple.
UncachedScan(key) ==
    lookup_command_body(commands, key[1], key[2], key[3], key[4])

\* C19: cache coherence.  While the handler runs, its rule tables are the
\* tables loaded from the files at construction; every memoized entry holds
\* the rule an uncached scan of the table returns for its tuple; the lookup
\* just made returned that rule; and for every tuple of an event the memoized
\* lookup, from the cache as it is now, returns what the uncached scan returns.
C19_CacheCoherent ==
    pc = "run" =>
        /\ commands = load_cmdconfig(TRUE, cmdrecords, pyver).table
        /\ translations = load_miditrans(TRUE, transrecords, pyver).table
        /\ \A i \in DOMAIN cache : cache[i].val = UncachedScan(cache[i].key)
        /\ LookedUp => look.val = UncachedScan(look.key)
        /\ \A key \in EventKeys :
              lookup_command(cache, commands, key[1], key[2], key[3], key[4],
                             lruAvail).val = UncachedScan(key)

\* More distinct tuples than the cache holds have been looked up, the cache
\* is full, and the last lookup was answered from the cache with a rule.
C19_Witness ==
    /\ pc = "run"
    /\ Len(hist) = MaxSize + 1
    /\ Len(cache) = MaxSize
    /\ LookedUp
    /\ ~look.scanned
    /\ look.val # NoRule

\* C20: once main has opened the input port, every way the program ends
\* releases it first: after an interrupt in the run loop, and after a failure
\* while the handler is constructed, the input port is closed.
C20_InputPortReleased ==
    pc \in {"crashed", "exited"} => midiin = "closed"

=============================================================================
